---- MODULE Spec2Model ----
(***************************************************************************)
(* robloxHELL: the streaming deduplication pipeline of src/index.ts        *)
(* (processEntries, flushLookup, persistCache, main) and the rate-gated    *)
(* batch verification client of rotector.ts (checkLotsOfUsers,             *)
(* checkMultipleUsers, waitForGlobal429, activateGlobal429).               *)
(*                                                                         *)
(* Scheduling: the program runs on one JavaScript event loop.  One action  *)
(* of this model is one macrotask (a timer firing, a response arriving, a  *)
(* stream entry being delivered) together with the run of microtasks that  *)
(* follows it: a continuation that only awaits an already settled promise  *)
(* runs before the next timer or response is handled.                      *)
(***************************************************************************)
EXTENDS Integers, Sequences, FiniteSets, TLC

(* ------------------------------ bounds -------------------------------- *)

\* Number of sources (--friend / --group targets) of one run.
NumSources == 2

\* index.ts:134 sets LOOKUP_BATCH_SIZE = 50 and rotector.ts:206 sets
\* BATCH_SIZE = 50; the model keeps the two equal and scales them down.
LOOKUP_BATCH_SIZE == 2

BATCH_SIZE == 2

\* Identifiers are 1..MaxId: enough for one full batch and a remainder.
MaxId == LOOKUP_BATCH_SIZE + 1

\* Entries one source stream delivers at most: every identifier and one
\* repetition.
MaxStreamLen == MaxId + 1

\* Rate-limit (429) responses the verifier gives in one run at most.
Max429 == 2

\* Largest numeric Retry-After hint (seconds) the verifier sends.
MaxRetryAfter == 1

\* Batches of a direct call of the exported checkLotsOfUsers at most.
MaxDirectBatches == 2

\* Pages a scraper fetches for one stream at most.
MaxPages == 2

\* Pages the roles of a group hold in all, entries a page holds, and the
\* member cap given to streamGroupMembers at most.
MaxGroupPages == 3
MaxPageLen == 2
MaxCap == 3

\* Results handed to writeStatus in a row when the classifiers are tried
\* on every flag level.
MaxClassified == 3

(* ------------------------- program constants -------------------------- *)

MAX_HTTP_RETRIES == 5

BASE_RETRY_DELAY_MS == 1000

MAX_RETRY_DELAY_MS == 30000

\* checkLotsOfUsers pauses before batch i when i % 25 = 1.
STAGGER_EVERY == 25

(* ------------------------------ values -------------------------------- *)

Ids == 1..MaxId

Sources == 1..NumSources

\* Flag levels the verifier answers with in the model.
FlagTypes == {0, 5}

\* The flag levels the classifiers are tried on: UserFlagStatus is 0..6.
FlagInputs == (-1)..7

UserStatus == [id : Ids, flagType : FlagTypes]

\* The Retry-After header of a 429 response: -1 absent, -2 present but not
\* a number, n >= 0 the number of seconds.
RetryAfterHeaders == {-2, -1} \cup (0..MaxRetryAfter)

Range(s) == {s[k] : k \in DOMAIN s}

\* A Map or a Record<string, ...> is a function on the keys it holds.
EmptyMap == [x \in {} |-> x]

VARIABLES
    \* ---- index.ts ----
    statusCache,     \* Map<number, UserStatus>: a function on the cached ids
    mainPc,          \* where main / processEntries stands
    srcIdx,          \* index of the source being processed (0 before the first)
    seenIds,         \* processEntries local
    pendingLookup,   \* processEntries local
    chunk,           \* flushLookup local: the detached batch
    totalCollected,
    uniqueUsers,
    newlyChecked,
    flagBreakdown,   \* Record<string, number>: a function on the labels met
    unsafeMatches,
    sink,            \* the records appended to the rotector file of the source
    rotectorWriter,  \* the write stream of that file: "none", "open", "closed"
    flushed,         \* the records the program has awaited to be on disk
    streamError,     \* the entry stream of the source has thrown
    \* ---- the scrapers (usersScraper, groupsScraper) ----
    scraper,         \* the page fetch in progress: fetchFriendsPage or fetchJSON
    groupStream,     \* a streamGroupMembers generator and the group it reads
    \* ---- the classifiers of rotector.ts ----
    classified,      \* what flagTypeToEnum did with the last flag level
    \* ---- rotector.ts ----
    global429Lock,   \* [held, waitMs]: the lock promise, or null when not held
    batches,         \* checkLotsOfUsers local: the batches of the current call
    task,            \* per batch, the state of its checkMultipleUsers call:
                     \*   pc, consecutiveFailures, waitMs (the sleep or lock
                     \*   length it computed last), response (what its last
                     \*   request got, "pending" while it is in flight) and
                     \*   requests (history: the requests a batch that has
                     \*   not returned has issued since it started or since
                     \*   its last 429)
    launcher,        \* the launch loop of checkLotsOfUsers: [pc, i]
    userStatuses,    \* checkLotsOfUsers local: results merged so far
    \* ---- history (not program state) ----
    batchLog,        \* the chunks the source has handed to checkLotsOfUsers
    discovered,      \* the first occurrences of the source, in discovery order
    submitted,       \* the ids the run has handed to checkLotsOfUsers so far
    cachedAtStart,   \* the ids statusCache held when the source started
    missingIds,      \* the ids of the source that resolved without a result
    failedIds,       \* the ids of the source whose batch failed
    omitted,         \* the ids of the chunk in flight that an earlier source
                     \* submitted and that resolved without a result
    halts,           \* locks established during the current call
    clears,          \* locks cleared during the current call
    rateLimited      \* 429 responses received during the current call

driverVars == <<statusCache, omitted, mainPc, srcIdx, seenIds, pendingLookup,
                chunk,
                totalCollected, uniqueUsers, newlyChecked, flagBreakdown,
                unsafeMatches, sink, rotectorWriter, flushed, streamError,
                batchLog, discovered, submitted, cachedAtStart, missingIds,
                failedIds>>

sideVars == <<scraper, groupStream, classified>>

pipelineVars == <<driverVars, sideVars>>

sourceLocals == <<seenIds, pendingLookup, totalCollected, uniqueUsers,
                  newlyChecked, flagBreakdown, unsafeMatches, sink,
                  rotectorWriter, flushed, streamError, batchLog, discovered,
                  failedIds>>

clientVars == <<global429Lock, batches, task, launcher, userStatuses,
                halts, clears, rateLimited>>

vars == <<pipelineVars, clientVars>>

(* ============================ rotector.ts ============================= *)

NoLock == [held |-> FALSE, waitMs |-> 0]

Min(a, b) == IF a <= b THEN a ELSE b

\* retryDelayMs with a fault: the exponent of the scrapers' backoffMs.
retryDelayMsDoubled(attempt) ==
    Min(MAX_RETRY_DELAY_MS, BASE_RETRY_DELAY_MS * 2 ^ attempt)

\* retryDelayMs of rotector.ts (lines 7-9).
retryDelayMs(attempt) ==
    Min(MAX_RETRY_DELAY_MS, BASE_RETRY_DELAY_MS * 2 ^ (attempt - 1))

\* backoffMs of the two scrapers (usersScraper and groupsScraper, lines 6-8
\* and 116-118 of the scraper sources).
backoffMs(attempt) ==
    Min(MAX_RETRY_DELAY_MS, BASE_RETRY_DELAY_MS * 2 ^ attempt)

\* flagTypeToEnum (lines 64-83): the level itself for 0..6, a thrown Error
\* for anything else.
flagTypeToEnum(f) ==
    IF f \in 0..6 THEN [throws |-> FALSE, value |-> f]
    ELSE [throws |-> TRUE, value |-> f]

\* flagTypeToString with a fault: an unknown level gets the label of level 0.
flagTypeToStringDefaultSafe(f) ==
    CASE f = 1 -> "PENDING"
      [] f = 2 -> "UNSAFE"
      [] f = 3 -> "QUEUED"
      [] f = 4 -> "INTEGRATION"
      [] f = 5 -> "MIXED"
      [] f = 6 -> "PAST_OFFENDER"
      [] OTHER -> "SAFE"

\* flagTypeToString: the enum name for 0..6, "UNKNOWN" for anything else.
flagTypeToString(f) ==
    CASE f = 0 -> "SAFE"
      [] f = 1 -> "PENDING"
      [] f = 2 -> "UNSAFE"
      [] f = 3 -> "QUEUED"
      [] f = 4 -> "INTEGRATION"
      [] f = 5 -> "MIXED"
      [] f = 6 -> "PAST_OFFENDER"
      [] OTHER -> "UNKNOWN"

\* Number(response.headers.get("Retry-After")) || 10, then * 1000 + 2500.
\* Number(null) is 0 and Number of a non-number is NaN: both are falsy.
RetryAfterWaitMs(h) ==
    LET retryAfter == IF h <= 0 THEN 10 ELSE h
    IN  retryAfter * 1000 + 2500

\* The batches of checkLotsOfUsers: ids.slice(i, i + BATCH_SIZE).
NumBatchesOf(ids) == (Len(ids) + BATCH_SIZE - 1) \div BATCH_SIZE

MakeBatches(ids) ==
    [b \in 1..NumBatchesOf(ids) |->
        SubSeq(ids, (b - 1) * BATCH_SIZE + 1,
               IF b * BATCH_SIZE < Len(ids) THEN b * BATCH_SIZE ELSE Len(ids))]

\* The stagger test of the launch loop, on the 0-based batch index i.
StaggerBefore(i) == i # 0 /\ (i % STAGGER_EVERY) = 1

\* The launch loop runs from index i without suspending until it meets the
\* next stagger pause or the end of the batches.
BurstStop(i, n) ==
    LET pauses == {j \in (i + 1)..n : j < n /\ StaggerBefore(j)}
    IN  IF pauses = {} THEN n
        ELSE CHOOSE j \in pauses : \A k \in pauses : j <= k

\* retryAfter of a task that is not handling a 429 response.
NoHeader == 0 - 3

FreshTask == [pc |-> "unlaunched", consecutiveFailures |-> 0, waitMs |-> 0,
              response |-> "none", requests |-> 0, retryAfter |-> NoHeader]

\* checkMultipleUsers from its first line to its first fetch, the lock not
\* held: waitForGlobal429 returns at once and the request is issued.
LaunchedTask == [pc |-> "inflight", consecutiveFailures |-> 0, waitMs |-> 0,
                 response |-> "pending", requests |-> 1,
                 retryAfter |-> NoHeader]

\* Task record tk once its fetch is issued.
Issued(tk) == [tk EXCEPT !.pc = "inflight", !.waitMs = 0,
                         !.response = "pending", !.requests = @ + 1,
                         !.retryAfter = NoHeader]

\* waitForGlobal429 as a task meets it at the top of its loop: the request
\* is issued when the lock is not held, else the task awaits the lock.
WaitForGlobal429Pc == IF global429Lock.held THEN "gate_wait" ELSE "inflight"

\* The launch loop from 0-based index i on, entered with the stagger pause
\* of i (if any) already slept: waitForGlobal429 (held: whether the lock is
\* held when it is called), then the burst of launches.
LaunchFrom(i, bs, tk, held) ==
    IF held
    THEN /\ launcher' = [pc |-> "gate_wait", i |-> i]
         /\ task' = tk
    ELSE LET stop == BurstStop(i, Len(bs))
         IN  /\ task' = [t \in DOMAIN tk |->
                            IF t - 1 >= i /\ t - 1 < stop
                            THEN LaunchedTask ELSE tk[t]]
             /\ launcher' = IF stop = Len(bs)
                            THEN [pc |-> "joining", i |-> stop]
                            ELSE [pc |-> "stagger_sleep", i |-> stop]

\* checkLotsOfUsers(ids) up to its first suspension.
CallCheckLotsOfUsers(ids) ==
    /\ batches' = MakeBatches(ids)
    /\ userStatuses' = EmptyMap
    /\ LaunchFrom(0, MakeBatches(ids), [t \in 1..NumBatchesOf(ids) |-> FreshTask],
                  global429Lock.held)
    /\ UNCHANGED <<global429Lock, halts, clears, rateLimited>>

\* RunningTaskState with a fault: the catch handler is missing, the
\* promise of a failed batch rejects.
RunningTaskStateNoCatch(pc) ==
    CASE pc = "done"   -> "fulfilled"
      [] pc = "failed" -> "rejected"
      [] OTHER         -> "pending"

\* The promise pushed to runningTasks (lines 227-235): the then handler
\* fulfils it when the batch returns, the catch handler when it throws.
RunningTaskState(pc) ==
    CASE pc \in {"done", "failed"} -> "fulfilled"
      [] OTHER                     -> "pending"

Settled(t) == RunningTaskState(task[t].pc) # "pending"

\* Promise.all(runningTasks) rejects: checkLotsOfUsers throws.
JoinRejects == \E t \in DOMAIN task : RunningTaskState(task[t].pc) = "rejected"

\* The ids of the batches of the current call that failed.
IdsOfFailed == UNION {Range(batches[t]) : t \in {u \in DOMAIN task : task[u].pc = "failed"}}

\* Promise.all(runningTasks) has resolved.
AllSettled ==
    /\ launcher.pc = "joining"
    /\ \A t \in DOMAIN task : Settled(t)

\* GivesUp with a fault: >= in place of >.
GivesUpAtCeiling(failures) == failures >= MAX_HTTP_RETRIES

\* The failure counter after one more transport or HTTP failure, and
\* whether the batch gives up (throws) on it.
GivesUp(failures) == failures > MAX_HTTP_RETRIES

\* kind: what the request got; a thrown fetch and a response that is
\* neither ok nor 429 are both counted the same way ("error").
FailureStep(t, kind) ==
    LET n == task[t].consecutiveFailures + 1
    IN  task' = [task EXCEPT ![t] =
                    IF GivesUp(n)
                    THEN [@ EXCEPT !.pc = "failed", !.consecutiveFailures = n,
                                   !.waitMs = 0, !.response = kind]
                    ELSE [@ EXCEPT !.pc = "backoff", !.consecutiveFailures = n,
                                   !.waitMs = retryDelayMs(n), !.response = kind]]

\* fetch throws (lines 144-159).
NetworkError(t) ==
    /\ t \in DOMAIN task
    /\ task[t].pc = "inflight"
    /\ FailureStep(t, "error")
    /\ UNCHANGED <<global429Lock, batches, launcher, userStatuses,
                   halts, clears, rateLimited>>
    /\ UNCHANGED pipelineVars

\* A response that is neither ok nor 429 (lines 182-193).
HttpError(t) ==
    /\ t \in DOMAIN task
    /\ task[t].pc = "inflight"
    /\ FailureStep(t, "error")
    /\ UNCHANGED <<global429Lock, batches, launcher, userStatuses,
                   halts, clears, rateLimited>>
    /\ UNCHANGED pipelineVars

\* LockAfterActivate with a fault: every call establishes a new lock.
LockAfterActivateRestart(waitMs) == [held |-> TRUE, waitMs |-> waitMs]

\* activateGlobal429(waitMs): establishes the lock unless one is held.
LockAfterActivate(waitMs) ==
    IF ~global429Lock.held
    THEN [held |-> TRUE, waitMs |-> waitMs]
    ELSE global429Lock

\* CounterAfter429 with a fault: the counter survives a 429 response.
CounterAfter429Kept(failures) == failures

\* consecutiveFailures = 0 on a 429 response (line 173).
CounterAfter429(failures) == 0

\* A 429 response (lines 172-180): the counter is reset, the gate tripped,
\* and the task awaits the lock.
RateLimited(t, h) ==
    /\ t \in DOMAIN task
    /\ task[t].pc = "inflight"
    /\ rateLimited < Max429
    /\ rateLimited' = rateLimited + 1
    /\ global429Lock' = LockAfterActivate(RetryAfterWaitMs(h))
    /\ halts' = IF global429Lock.held THEN halts ELSE halts + 1
    /\ task' = [task EXCEPT ![t] =
                   [pc |-> "activate_wait",
                    consecutiveFailures |-> CounterAfter429(@.consecutiveFailures),
                    waitMs |-> RetryAfterWaitMs(h),
                    response |-> "429",
                    requests |-> CounterAfter429(@.requests),
                    retryAfter |-> h]]
    /\ UNCHANGED <<batches, launcher, userStatuses, clears>>
    /\ UNCHANGED pipelineVars

\* Object.assign(userStatuses, data).
Assign(target, data) ==
    [x \in DOMAIN target \cup DOMAIN data |->
        IF x \in DOMAIN data THEN data[x] ELSE target[x]]

\* The data a successful response can carry for a batch: a result for any
\* subset of the requested ids.
ResponsesFor(ids) ==
    UNION {[S -> FlagTypes] : S \in SUBSET Range(ids)}

DataOf(flags) == [x \in DOMAIN flags |-> [id |-> x, flagType |-> flags[x]]]

\* OkData with a fault: the client stores the data in statusCache as well.
OkDataWritesCache(t, flags) ==
    /\ t \in DOMAIN task
    /\ task[t].pc = "inflight"
    /\ flags \in ResponsesFor(batches[t])
    /\ task' = [task EXCEPT ![t] =
                   [@ EXCEPT !.pc = "done", !.consecutiveFailures = 0,
                             !.waitMs = 0, !.response = "ok_data",
                             !.requests = 0]]
    /\ userStatuses' = Assign(userStatuses, DataOf(flags))
    /\ statusCache' = Assign(statusCache, DataOf(flags))
    /\ UNCHANGED <<global429Lock, batches, launcher, halts, clears, rateLimited>>
    /\ UNCHANGED <<omitted, mainPc, srcIdx, seenIds, pendingLookup, chunk,
                   totalCollected, uniqueUsers, newlyChecked, flagBreakdown,
                   unsafeMatches, sink, rotectorWriter, flushed, streamError,
                   batchLog, discovered, submitted, cachedAtStart, missingIds,
                   failedIds, sideVars>>

\* An ok response with success and data (lines 161-170, 228-230).
OkData(t, flags) ==
    /\ t \in DOMAIN task
    /\ task[t].pc = "inflight"
    /\ flags \in ResponsesFor(batches[t])
    /\ task' = [task EXCEPT ![t] =
                   [@ EXCEPT !.pc = "done", !.consecutiveFailures = 0,
                             !.waitMs = 0, !.response = "ok_data",
                             !.requests = 0]]
    /\ userStatuses' = Assign(userStatuses, DataOf(flags))
    /\ UNCHANGED <<global429Lock, batches, launcher, halts, clears, rateLimited>>
    /\ UNCHANGED pipelineVars

\* AfterLogicalFailure with a fault: the logical failure is handled like an
\* HTTP error, counted and retried after a backoff.
AfterLogicalFailureRetried(tk) ==
    [tk EXCEPT !.pc = "backoff", !.consecutiveFailures = 1,
               !.waitMs = retryDelayMs(1), !.response = "ok_no_data"]

\* The task record after an ok response with success false or without
\* data (lines 162-167): the counter is reset, then the call throws.
AfterLogicalFailure(tk) ==
    [tk EXCEPT !.pc = "failed", !.consecutiveFailures = 0,
               !.waitMs = 0, !.response = "ok_no_data"]

\* An ok response with success false or without data (lines 165-167): the
\* call throws, the catch of checkLotsOfUsers swallows it.
OkLogicalFail(t) ==
    /\ t \in DOMAIN task
    /\ task[t].pc = "inflight"
    /\ task' = [task EXCEPT ![t] = AfterLogicalFailure(@)]
    /\ UNCHANGED <<global429Lock, batches, launcher, userStatuses,
                   halts, clears, rateLimited>>
    /\ UNCHANGED pipelineVars

\* AfterBackoffPc with a fault: a retry issues its request without the wait.
AfterBackoffPcNoGate == "inflight"

\* The pc of a task whose backoff sleep has ended: back to the top of the
\* loop, that is to waitForGlobal429.
AfterBackoffPc == WaitForGlobal429Pc

\* The backoff sleep of a task ends (lines 157-158, 193).
BackoffElapsed(t) ==
    /\ t \in DOMAIN task
    /\ task[t].pc = "backoff"
    /\ task' = [task EXCEPT ![t] =
                   IF AfterBackoffPc = "inflight" THEN Issued(@)
                   ELSE [@ EXCEPT !.pc = AfterBackoffPc]]
    /\ UNCHANGED <<global429Lock, batches, launcher, userStatuses,
                   halts, clears, rateLimited>>
    /\ UNCHANGED pipelineVars

\* TasksAfterClear with a fault: the tasks awaiting the lock in
\* activateGlobal429 are not resumed.
TasksAfterClearGateOnly(tk) ==
    [t \in DOMAIN tk |->
        IF tk[t].pc = "gate_wait"
        THEN Issued(tk[t])
        ELSE tk[t]]

\* The tasks once the lock promise has resolved: those awaiting it in
\* waitForGlobal429 issue their request, those awaiting it in
\* activateGlobal429 loop to waitForGlobal429, find no lock and issue theirs.
TasksAfterClear(tk) ==
    [t \in DOMAIN tk |->
        IF tk[t].pc \in {"gate_wait", "activate_wait"}
        THEN Issued(tk[t])
        ELSE tk[t]]

\* The sleep of the lock ends (lines 109-111): the lock is set to null and
\* its promise resolves.
GateClear ==
    /\ global429Lock.held
    /\ global429Lock' = NoLock
    /\ clears' = clears + 1
    /\ IF launcher.pc = "gate_wait"
       THEN LaunchFrom(launcher.i, batches, TasksAfterClear(task), FALSE)
       ELSE /\ task' = TasksAfterClear(task)
            /\ launcher' = launcher
    /\ UNCHANGED <<batches, userStatuses, halts, rateLimited>>
    /\ UNCHANGED pipelineVars

\* The stagger sleep of the launch loop ends (line 220).
StaggerElapsed ==
    /\ launcher.pc = "stagger_sleep"
    /\ LaunchFrom(launcher.i, batches, task, global429Lock.held)
    /\ UNCHANGED <<global429Lock, batches, userStatuses, halts, clears, rateLimited>>
    /\ UNCHANGED pipelineVars

(* ============================== index.ts ============================== *)

\* PersistCache with a fault: the cache is replaced by the latest results.
PersistCacheReplace(results) == results

\* persistCache: statusCache.set(Number(userId), status) for every entry.
PersistCache(results) ==
    [x \in DOMAIN statusCache \cup DOMAIN results |->
        IF x \in DOMAIN results THEN results[x] ELSE statusCache[x]]

\* AlreadySeen with a fault: the seen test never finds the id.
AlreadySeenNever(userId) == FALSE

\* seenIds.has(userId) (line 349).
AlreadySeen(userId) == userId \in seenIds

\* IsCached with a fault: the cache lookup never hits.
IsCachedNever(userId) == FALSE

\* statusCache.get(userId) is truthy (lines 356-357).
IsCached(userId) == userId \in DOMAIN statusCache

\* BufferFull with a fault: > in place of >=, the buffer is flushed one
\* entry late.
BufferFullLate(buf) == Len(buf) > LOOKUP_BATCH_SIZE

\* BufferFull with a fault: the buffer is flushed one entry early.
BufferFullEarly(buf) == Len(buf) >= LOOKUP_BATCH_SIZE - 1

\* pendingLookup.length >= LOOKUP_BATCH_SIZE (line 363).
BufferFull(buf) == Len(buf) >= LOOKUP_BATCH_SIZE

\* flagBreakdown[flagLabel] = (flagBreakdown[flagLabel] ?? 0) + 1.
BumpBreakdown(fb, label) ==
    [l \in DOMAIN fb \cup {label} |->
        IF l = label
        THEN (IF l \in DOMAIN fb THEN fb[l] ELSE 0) + 1
        ELSE fb[l]]

\* writeStatus(status) on the writer state w = [sink, flagBreakdown,
\* unsafeMatches] of source src: one record appended, the counters bumped.
WriteStatus(w, src, status) ==
    [sink          |-> Append(w.sink, [source |-> src, user |-> status]),
     flagBreakdown |-> BumpBreakdown(w.flagBreakdown, flagTypeToString(status.flagType)),
     unsafeMatches |-> IF status.flagType # 0 THEN w.unsafeMatches + 1
                       ELSE w.unsafeMatches]

\* WriteChunk with a fault: the loop ends at the first id without a result.
RECURSIVE WriteChunkStopsAtMissing(_, _, _, _)
WriteChunkStopsAtMissing(w, src, ids, results) ==
    IF ids = << >> \/ Head(ids) \notin DOMAIN results THEN w
    ELSE WriteChunkStopsAtMissing(WriteStatus(w, src, results[Head(ids)]),
                                  src, Tail(ids), results)

\* The loop of flushLookup over its chunk (lines 332-339): writeStatus for
\* each id the results hold, in chunk order; a warning for the others.
RECURSIVE WriteChunk(_, _, _, _)
WriteChunk(w, src, ids, results) ==
    IF ids = << >> THEN w
    ELSE WriteChunk(IF Head(ids) \in DOMAIN results
                    THEN WriteStatus(w, src, results[Head(ids)])
                    ELSE w,
                    src, Tail(ids), results)

Writer == [sink |-> sink, flagBreakdown |-> flagBreakdown,
           unsafeMatches |-> unsafeMatches]

SetWriter(w) ==
    /\ sink' = w.sink
    /\ flagBreakdown' = w.flagBreakdown
    /\ unsafeMatches' = w.unsafeMatches

\* DetachAndSubmit with a fault: the flush of a full buffer is not awaited,
\* the loop goes on with the next entry.
DetachAndSubmitNoAwait(buf, pc) ==
    /\ chunk' = buf
    /\ pendingLookup' = << >>
    /\ batchLog' = Append(batchLog, buf)
    /\ submitted' = submitted \cup Range(buf)
    /\ omitted' = Range(buf) \cap submitted
    /\ mainPc' = IF pc = "flush" THEN "iter" ELSE pc
    /\ CallCheckLotsOfUsers(buf)

\* flushLookup up to its await (lines 323-328): the buffer is detached and
\* handed to checkLotsOfUsers.
DetachAndSubmit(buf, pc) ==
    /\ chunk' = buf
    /\ pendingLookup' = << >>
    /\ batchLog' = Append(batchLog, buf)
    /\ submitted' = submitted \cup Range(buf)
    /\ omitted' = Range(buf) \cap submitted
    /\ mainPc' = pc
    /\ CallCheckLotsOfUsers(buf)

\* main starts the next source: processFriendSource / processGroupSource
\* up to the first stream entry, with the locals of processEntries.
StartSource ==
    /\ UNCHANGED sideVars
    /\ mainPc = "idle"
    /\ srcIdx < NumSources
    /\ srcIdx' = srcIdx + 1
    /\ mainPc' = "iter"
    /\ seenIds' = {}
    /\ pendingLookup' = << >>
    /\ totalCollected' = 0
    /\ uniqueUsers' = 0
    /\ newlyChecked' = 0
    /\ flagBreakdown' = EmptyMap
    /\ unsafeMatches' = 0
    /\ sink' = << >>
    /\ rotectorWriter' = "open"
    /\ flushed' = 0
    /\ batchLog' = << >>
    /\ discovered' = << >>
    /\ cachedAtStart' = DOMAIN statusCache
    /\ missingIds' = {}
    /\ failedIds' = {}
    /\ UNCHANGED <<statusCache, omitted, chunk, submitted, streamError>>
    /\ UNCHANGED clientVars

\* The identifiers the run has met so far.
MetIds == seenIds \cup submitted

\* The streams are taken up to a renaming of the identifiers (the program
\* only compares them for equality): an identifier the run has not met yet
\* is the smallest one not met.
NextInStream == {x \in Ids : x \in MetIds \/ \A y \in 1..(x - 1) : y \in MetIds}

\* One iteration of the for-await loop (lines 344-368) on entry userId.
StreamEntry(userId) ==
    /\ UNCHANGED sideVars
    /\ mainPc = "iter"
    /\ totalCollected < MaxStreamLen
    /\ userId \in NextInStream
    /\ totalCollected' = totalCollected + 1
    /\ UNCHANGED <<statusCache, srcIdx, newlyChecked, cachedAtStart,
                   missingIds, rotectorWriter, flushed, streamError, failedIds>>
    /\ IF AlreadySeen(userId)
       THEN /\ UNCHANGED <<mainPc, seenIds, pendingLookup, chunk, uniqueUsers,
                           flagBreakdown, unsafeMatches, sink, batchLog,
                           discovered, submitted, omitted>>
            /\ UNCHANGED clientVars
       ELSE /\ seenIds' = seenIds \cup {userId}
            /\ uniqueUsers' = uniqueUsers + 1
            /\ discovered' = Append(discovered, userId)
            /\ IF IsCached(userId)
               THEN /\ SetWriter(WriteStatus(Writer, srcIdx, statusCache[userId]))
                    /\ UNCHANGED <<mainPc, pendingLookup, chunk, batchLog,
                                   submitted, omitted>>
                    /\ UNCHANGED clientVars
               ELSE /\ UNCHANGED <<flagBreakdown, unsafeMatches, sink>>
                    /\ IF BufferFull(Append(pendingLookup, userId))
                       THEN DetachAndSubmit(Append(pendingLookup, userId), "flush")
                       ELSE /\ pendingLookup' = Append(pendingLookup, userId)
                            /\ UNCHANGED <<mainPc, chunk, batchLog, submitted,
                                           omitted>>
                            /\ UNCHANGED clientVars

\* FinalFlushPc with a fault: the final flushLookup is not awaited.
FinalFlushPcNoAwait == "returned"

\* await flushLookup() after the loop (line 370).
FinalFlushPc == "final_flush"

\* The stream ends: the final flushLookup (line 370).
StreamEnd ==
    /\ UNCHANGED sideVars
    /\ mainPc = "iter"
    /\ UNCHANGED <<statusCache, srcIdx, seenIds, totalCollected, uniqueUsers,
                   newlyChecked, flagBreakdown, unsafeMatches, sink, discovered,
                   cachedAtStart, missingIds, rotectorWriter, flushed,
                   streamError, failedIds>>
    /\ IF pendingLookup = << >>
       THEN /\ mainPc' = "returned"
            /\ UNCHANGED <<pendingLookup, chunk, batchLog, submitted, omitted>>
            /\ UNCHANGED clientVars
       ELSE DetachAndSubmit(pendingLookup, FinalFlushPc)

\* checkLotsOfUsers returns and flushLookup runs to its end (lines 328-341);
\* if checkLotsOfUsers throws, so do flushLookup, processEntries and the
\* source function, and main exits (lines 679-685).
LookupResolved ==
    /\ UNCHANGED sideVars
    /\ mainPc \in {"flush", "final_flush"}
    /\ AllSettled
    /\ IF JoinRejects
       THEN /\ mainPc' = "aborted"
            /\ UNCHANGED <<statusCache, omitted, newlyChecked, missingIds, failedIds,
                           flagBreakdown, unsafeMatches, sink, chunk>>
            /\ UNCHANGED clientVars
       ELSE /\ statusCache' = PersistCache(userStatuses)
            /\ omitted' = {}
            /\ newlyChecked' = newlyChecked + Len(chunk)
            /\ missingIds' = missingIds \cup (Range(chunk) \ DOMAIN userStatuses)
            /\ failedIds' = failedIds \cup IdsOfFailed
            /\ SetWriter(WriteChunk(Writer, srcIdx, chunk, userStatuses))
            /\ mainPc' = IF mainPc = "flush" THEN "iter" ELSE "returned"
            /\ chunk' = << >>
            /\ batches' = << >>
            /\ task' = << >>
            /\ launcher' = [pc |-> "idle", i |-> 0]
            /\ userStatuses' = EmptyMap
            /\ halts' = 0
            /\ clears' = 0
            /\ rateLimited' = 0
            /\ UNCHANGED global429Lock
    /\ UNCHANGED <<srcIdx, seenIds, pendingLookup, totalCollected, uniqueUsers,
                   batchLog, discovered, submitted, cachedAtStart,
                   rotectorWriter, flushed, streamError>>

\* AbortPc with a fault: the error of the stream is taken for its end.
AbortPcTruncates == "returned"

\* An error thrown by the entry stream leaves the for-await loop (line
\* 344), processEntries and the source function, and reaches the catch of
\* main, which ends the process with exit code 1 (lines 679-685).
AbortPc == "aborted"

\* The entry stream throws: a page fetch of the scraper has exhausted its
\* retries.
StreamFails ==
    /\ UNCHANGED sideVars
    /\ mainPc = "iter"
    /\ mainPc' = AbortPc
    /\ streamError' = TRUE
    /\ UNCHANGED <<statusCache, omitted, srcIdx, seenIds, pendingLookup, chunk,
                   totalCollected, uniqueUsers, newlyChecked, flagBreakdown,
                   unsafeMatches, sink, rotectorWriter, flushed, batchLog,
                   discovered, submitted, cachedAtStart, missingIds, failedIds>>
    /\ UNCHANGED clientVars

\* processEntries has returned: logger.statusDone("<label> complete ...")
\* (lines 462-464, 568-570).
StatusDone ==
    /\ UNCHANGED sideVars
    /\ mainPc = "returned"
    /\ mainPc' = "reported"
    /\ UNCHANGED <<statusCache, omitted, srcIdx, chunk, submitted, cachedAtStart, missingIds>>
    /\ UNCHANGED sourceLocals
    /\ UNCHANGED clientVars

\* closeWriter(rotectorWriter) (lines 233-236, 467, 573): stream.end(),
\* then the close event, which follows the last write reaching the file.
CloseWriters ==
    /\ UNCHANGED sideVars
    /\ mainPc = "reported"
    /\ mainPc' = "closed"
    /\ rotectorWriter' = "closed"
    /\ flushed' = Len(sink)
    /\ UNCHANGED <<statusCache, omitted, srcIdx, seenIds, pendingLookup, chunk,
                   totalCollected, uniqueUsers, newlyChecked, flagBreakdown,
                   unsafeMatches, sink, streamError, batchLog, discovered,
                   submitted, cachedAtStart, missingIds, failedIds>>
    /\ UNCHANGED clientVars

\* The writers are closed: the index is written and the summary returned
\* and pushed (lines 469-497, 575-609).  The locals of processEntries and
\* the writer of the source end here.
FinishSource ==
    /\ UNCHANGED sideVars
    /\ mainPc = "closed"
    /\ mainPc' = "idle"
    /\ seenIds' = {}
    /\ pendingLookup' = << >>
    /\ totalCollected' = 0
    /\ uniqueUsers' = 0
    /\ newlyChecked' = 0
    /\ flagBreakdown' = EmptyMap
    /\ unsafeMatches' = 0
    /\ sink' = << >>
    /\ rotectorWriter' = "none"
    /\ flushed' = 0
    /\ batchLog' = << >>
    /\ discovered' = << >>
    /\ cachedAtStart' = {}
    /\ missingIds' = {}
    /\ failedIds' = {}
    /\ UNCHANGED <<statusCache, omitted, srcIdx, chunk, submitted, streamError>>
    /\ UNCHANGED clientVars

\* No source is left: the summary is written (lines 648-678).
RunComplete ==
    /\ UNCHANGED sideVars
    /\ mainPc = "idle"
    /\ srcIdx >= 1
    /\ mainPc' = "run_done"
    /\ UNCHANGED <<statusCache, omitted, srcIdx, chunk, submitted, cachedAtStart, missingIds>>
    /\ UNCHANGED sourceLocals
    /\ UNCHANGED clientVars

(* ---------------- a direct call of checkLotsOfUsers ------------------- *)

\* The ids of a direct call that makes n batches, the last one short.
DirectIds(n) == [k \in 1..((n - 1) * BATCH_SIZE + 1) |-> k]

DirectCall(n) ==
    /\ UNCHANGED sideVars
    /\ mainPc = "direct"
    /\ mainPc' = "direct_wait"
    /\ chunk' = DirectIds(n)
    /\ CallCheckLotsOfUsers(DirectIds(n))
    /\ UNCHANGED <<statusCache, omitted, srcIdx, submitted, cachedAtStart, missingIds>>
    /\ UNCHANGED sourceLocals

DirectReturn ==
    /\ UNCHANGED sideVars
    /\ mainPc = "direct_wait"
    /\ AllSettled
    /\ mainPc' = IF JoinRejects THEN "direct_thrown" ELSE "direct_done"
    /\ UNCHANGED <<statusCache, omitted, srcIdx, chunk, submitted, cachedAtStart, missingIds>>
    /\ UNCHANGED sourceLocals
    /\ UNCHANGED clientVars

(* ============================ the scrapers ============================ *)

\* fetchFriendsPage (usersScraper, lines 30-82) and fetchJSON (groupsScraper,
\* lines 152-202): one call per page, each with its own attempt counter.
ScraperKinds == {"fetchFriendsPage", "fetchJSON"}

IdleScraper == [kind |-> "none", pc |-> "idle", page |-> 0, attempt |-> 0,
                retryAttempt |-> 0, waitMs |-> 0, response |-> "none",
                requests |-> 0]

\* A call of the fetch function for page p: for (let attempt = 0; ...) and
\* the first fetch.
FetchCall(kind, p) == [kind |-> kind, pc |-> "inflight", page |-> p, attempt |-> 0,
                       retryAttempt |-> 0, waitMs |-> 0, response |-> "pending",
                       requests |-> 1]

\* Number(resp.headers.get("Retry-After")): NaN (here -2) for a header that
\* is not a number, 0 for an absent header (Number(null)).
NumberOfHeader(h) == IF h = -2 THEN -2 ELSE IF h = -1 THEN 0 ELSE h

\* The delay before the retry after a response that is not ok (lines 68-69
\* and 183-188): fetchJSON takes the Retry-After of a 429 when it is a
\* number, everything else is backoffMs(retryAttempt).
NotOkWaitMs(kind, status429, h, retryAttempt) ==
    IF kind = "fetchJSON" /\ status429 /\ NumberOfHeader(h) # -2
    THEN NumberOfHeader(h) * 1000
    ELSE backoffMs(retryAttempt)

\* ScraperGivesUp with a fault: > in place of >=.
ScraperGivesUpLate(retryAttempt) == retryAttempt > MAX_HTTP_RETRIES

\* retryAttempt >= MAX_HTTP_RETRIES (lines 47, 75, 166, 196).
ScraperGivesUp(retryAttempt) == retryAttempt >= MAX_HTTP_RETRIES

\* The failure paths: retryAttempt = attempt + 1, then throw or wait.
ScraperFailure(resp, waitMs) ==
    LET retryAttempt == scraper.attempt + 1
    IN  scraper' = [scraper EXCEPT
                        !.retryAttempt = retryAttempt,
                        !.response = resp,
                        !.waitMs = IF ScraperGivesUp(retryAttempt) THEN 0 ELSE waitMs,
                        !.pc = IF ScraperGivesUp(retryAttempt) THEN "thrown"
                               ELSE "waiting"]

\* The generator is started and fetches its first page.
ScraperStart(kind) ==
    /\ scraper.pc = "idle"
    /\ scraper' = FetchCall(kind, 1)

\* fetch throws (lines 45-62, 164-179).
ScraperThrows ==
    /\ scraper.pc = "inflight"
    /\ ScraperFailure("throw", backoffMs(scraper.attempt + 1))

\* A response that is neither ok nor 429 (lines 68-80, 183-200).
ScraperHttpError ==
    /\ scraper.pc = "inflight"
    /\ ScraperFailure("error", NotOkWaitMs(scraper.kind, FALSE, -1, scraper.attempt + 1))

\* A 429 response with Retry-After header h.
Scraper429(h) ==
    /\ scraper.pc = "inflight"
    /\ ScraperFailure("429", NotOkWaitMs(scraper.kind, TRUE, h, scraper.attempt + 1))

\* wait(waitMs) ends: the loop goes on with attempt++ and fetches again.
ScraperWaitElapsed ==
    /\ scraper.pc = "waiting"
    /\ scraper' = [scraper EXCEPT !.pc = "inflight", !.attempt = @ + 1,
                                  !.response = "pending", !.waitMs = 0,
                                  !.requests = @ + 1]

\* An ok response: the page is returned; the generator fetches the next
\* page when the page has a cursor, and ends otherwise.
ScraperOk(more) ==
    /\ scraper.pc = "inflight"
    /\ more => scraper.page < MaxPages
    /\ scraper' = IF more THEN FetchCall(scraper.kind, scraper.page + 1)
                  ELSE [scraper EXCEPT !.pc = "returned", !.response = "ok"]

ScraperStep ==
    \/ \E kind \in ScraperKinds : ScraperStart(kind)
         /\ UNCHANGED <<driverVars, clientVars, groupStream, classified>>
    \/ ScraperThrows
         /\ UNCHANGED <<driverVars, clientVars, groupStream, classified>>
    \/ ScraperHttpError
         /\ UNCHANGED <<driverVars, clientVars, groupStream, classified>>
    \/ \E h \in RetryAfterHeaders : Scraper429(h)
         /\ UNCHANGED <<driverVars, clientVars, groupStream, classified>>
    \/ ScraperWaitElapsed
         /\ UNCHANGED <<driverVars, clientVars, groupStream, classified>>
    \/ \E more \in BOOLEAN : ScraperOk(more)
         /\ UNCHANGED <<driverVars, clientVars, groupStream, classified>>

(* ========================== streamGroupMembers ======================== *)

\* What the group holds, as the responses to the page requests in the order
\* streamGroupMembers makes them (role by role, page by page): size is the
\* length of data, last says that nextPageCursor is null, which ends a role.
\* The last page of the last role has no cursor.
GroupLayouts ==
    {l \in UNION {[1..n -> [size : 0..MaxPageLen, last : BOOLEAN]] :
                     n \in 0..MaxGroupPages} :
        l # << >> => l[Len(l)].last}

IdleGroupStream ==
    [pc |-> "idle", max |-> 0, layout |-> << >>, page |-> 0, pos |-> 0,
     delivered |-> 0, yielded |-> << >>, requested |-> << >>]

\* CapReached with a fault: > in place of >=.
CapReachedLate(max, delivered) == max # 0 /\ delivered > max

\* if (max && delivered >= max) (line 256): no cap is undefined or 0.
CapReached(max, delivered) == max # 0 /\ delivered >= max

\* streamRolesetMembers asks for page p (lines 229-230).
FetchPage(g, p) ==
    [g EXCEPT !.pc = "fetching", !.page = p, !.pos = 0,
              !.requested = Append(@, p)]

\* yield of entry k of the page at hand (lines 233, 252).
YieldEntry(g, k) ==
    [g EXCEPT !.pc = "yielded", !.pos = k,
              !.yielded = Append(@, <<g.page, k>>)]

\* The entries of the page are used up (lines 236-237, 250-251): the next
\* page of the role if there is a cursor, else the first page of the next
\* role, else the generator returns.
AfterPage(g) ==
    IF ~g.layout[g.page].last THEN FetchPage(g, g.page + 1)
    ELSE IF g.page < Len(g.layout) THEN FetchPage(g, g.page + 1)
    ELSE [g EXCEPT !.pc = "ended"]

\* The consumer's first next() on streamGroupMembers(groupId, max, rolesets)
\* (lines 243-251): up to the first page request.
GroupStart(max, layout) ==
    /\ mainPc = "group"
    /\ groupStream.pc = "idle"
    /\ groupStream' =
         LET g == [IdleGroupStream EXCEPT !.max = max, !.layout = layout]
         IN IF layout = << >> THEN [g EXCEPT !.pc = "ended"]
            ELSE FetchPage(g, 1)
    /\ UNCHANGED <<driverVars, clientVars, scraper, classified>>

\* fetchJSON returns the page (lines 230-234): its first entry is yielded,
\* or, the page being empty, the generator goes on to the next page.
GroupPageArrives ==
    /\ groupStream.pc = "fetching"
    /\ groupStream' =
         IF groupStream.layout[groupStream.page].size > 0
         THEN YieldEntry(groupStream, 1)
         ELSE AfterPage(groupStream)
    /\ UNCHANGED <<driverVars, clientVars, scraper, classified>>

\* fetchJSON throws (lines 163-167, 190-192): so does the generator.
GroupFetchThrows ==
    /\ groupStream.pc = "fetching"
    /\ groupStream' = [groupStream EXCEPT !.pc = "thrown"]
    /\ UNCHANGED <<driverVars, clientVars, scraper, classified>>

\* The consumer's next() after an entry (lines 253-258): delivered++, the
\* cap check, then the next entry of the page or the next page.
GroupPull ==
    /\ groupStream.pc = "yielded"
    /\ groupStream' =
         LET g == [groupStream EXCEPT !.delivered = @ + 1]
         IN IF CapReached(g.max, g.delivered) THEN [g EXCEPT !.pc = "ended"]
            ELSE IF g.pos < g.layout[g.page].size THEN YieldEntry(g, g.pos + 1)
            ELSE AfterPage(g)
    /\ UNCHANGED <<driverVars, clientVars, scraper, classified>>

(* ========================== the classifiers =========================== *)

\* A result of flag level f is classified: flagTypeToEnum as exp.ts calls it
\* (line 15) and writeStatus, which calls flagTypeToString (index.ts line 300).
ClassifyAndWrite(f) ==
    /\ mainPc = "classify"
    /\ Len(sink) < MaxClassified
    /\ classified' = flagTypeToEnum(f)
    /\ SetWriter(WriteStatus(Writer, 0, [id |-> Len(sink) + 1, flagType |-> f]))
    /\ UNCHANGED <<statusCache, omitted, mainPc, srcIdx, seenIds, pendingLookup, chunk,
                   totalCollected, uniqueUsers, newlyChecked, rotectorWriter,
                   flushed, streamError, batchLog, discovered, submitted,
                   cachedAtStart, missingIds, failedIds>>
    /\ UNCHANGED <<scraper, groupStream>>
    /\ UNCHANGED clientVars

(* =========================== specifications =========================== *)

InitCommon ==
    /\ statusCache = EmptyMap
    /\ omitted = {}
    /\ srcIdx = 0
    /\ seenIds = {}
    /\ pendingLookup = << >>
    /\ chunk = << >>
    /\ totalCollected = 0
    /\ uniqueUsers = 0
    /\ newlyChecked = 0
    /\ flagBreakdown = EmptyMap
    /\ unsafeMatches = 0
    /\ sink = << >>
    /\ rotectorWriter = "none"
    /\ flushed = 0
    /\ streamError = FALSE
    /\ scraper = IdleScraper
    /\ groupStream = IdleGroupStream
    /\ classified = [throws |-> FALSE, value |-> 0]
    /\ failedIds = {}
    /\ global429Lock = NoLock
    /\ batches = << >>
    /\ task = << >>
    /\ launcher = [pc |-> "idle", i |-> 0]
    /\ userStatuses = EmptyMap
    /\ batchLog = << >>
    /\ discovered = << >>
    /\ submitted = {}
    /\ cachedAtStart = {}
    /\ missingIds = {}
    /\ halts = 0
    /\ clears = 0
    /\ rateLimited = 0

\* The program as main drives it.
Init == InitCommon /\ mainPc = "idle"

ClientStep ==
    \/ \E t \in DOMAIN task : NetworkError(t)
    \/ \E t \in DOMAIN task : HttpError(t)
    \/ \E t \in DOMAIN task, h \in RetryAfterHeaders : RateLimited(t, h)
    \/ \E t \in DOMAIN task : OkLogicalFail(t)
    \/ \E t \in DOMAIN task : BackoffElapsed(t)
    \/ \E t \in DOMAIN task : \E flags \in ResponsesFor(batches[t]) : OkData(t, flags)
    \/ GateClear

Next ==
    \/ StartSource
    \/ \E userId \in Ids : StreamEntry(userId)
    \/ StreamEnd
    \/ StreamFails
    \/ LookupResolved
    \/ StatusDone
    \/ CloseWriters
    \/ FinishSource
    \/ RunComplete
    \/ ClientStep

Spec == Init /\ [][Next]_vars

\* The exported checkLotsOfUsers called once with several batches.
InitClient == InitCommon /\ mainPc = "direct"

NextClient ==
    \/ \E n \in 1..MaxDirectBatches : DirectCall(n)
    \/ DirectReturn
    \/ StaggerElapsed
    \/ ClientStep

SpecClient == InitClient /\ [][NextClient]_vars

\* The retry loops of the program side by side: one page stream of a
\* scraper and a verification call of one batch.
NextBackoff ==
    \/ ScraperStep
    \/ DirectCall(1)
    \/ DirectReturn
    \/ ClientStep

SpecBackoff == InitClient /\ [][NextBackoff]_vars

\* The classifiers on results of every flag level.
InitClassify == InitCommon /\ mainPc = "classify"

NextClassify == \E f \in FlagInputs : ClassifyAndWrite(f)

SpecClassify == InitClassify /\ [][NextClassify]_vars

\* streamGroupMembers read to its end by a for-await loop, on every group
\* and cap of the bounds.
InitGroup == InitCommon /\ mainPc = "group"

NextGroup ==
    \/ /\ groupStream.pc = "idle"
       /\ \E max \in 0..MaxCap, layout \in GroupLayouts : GroupStart(max, layout)
    \/ GroupPageArrives
    \/ GroupFetchThrows
    \/ GroupPull

SpecGroup == InitGroup /\ [][NextGroup]_vars

\* The timer of the lock's sleep fires: the runtime guarantees it.
FairSpecClient == SpecClient /\ WF_vars(GateClear)

(* =============================== claims =============================== *)

InLookup == mainPc \in {"flush", "final_flush"}

\* The ids of the chunks the source has submitted so far.
SubmittedBySource == UNION {Range(batchLog[i]) : i \in DOMAIN batchLog}

\* How many places of the source's chunks hold x.
TimesInBatchLog(x) ==
    Cardinality({<<i, k>> \in (DOMAIN batchLog) \X (1..LOOKUP_BATCH_SIZE) :
                    k <= Len(batchLog[i]) /\ batchLog[i][k] = x})

\* The ids of the chunk a step hands to checkLotsOfUsers (none if the step
\* hands none).
SubmittedNow ==
    IF Len(batchLog') = Len(batchLog) + 1
    THEN Range(batchLog'[Len(batchLog')])
    ELSE {}

RecordsOf(x) == {k \in DOMAIN sink : sink[k].user.id = x}

C2_CacheHitSkipsNetwork ==
    \A x \in seenIds \cap cachedAtStart :
        /\ x \notin SubmittedBySource
        /\ x \notin Range(pendingLookup)
        /\ Cardinality(RecordsOf(x)) = 1
        /\ \A k \in RecordsOf(x) :
              sink[k] = [source |-> srcIdx, user |-> statusCache[x]]

\* C2 witness: the second source has met an identifier resolved earlier as
\* flag 5.
C2_Witness ==
    /\ srcIdx = 2
    /\ \E x \in seenIds \cap cachedAtStart : statusCache[x].flagType = 5

\* C3: a source that ends with N distinct identifiers, none of them served
\* from RunCache, has submitted ceil(N / B) chunks, all of size B but the
\* last, which has size N mod B (B when B divides N); none for N = 0.
C3_BatchSizing ==
    (mainPc = "returned" /\ seenIds \cap cachedAtStart = {}) =>
        LET N  == Cardinality(seenIds)
            B  == LOOKUP_BATCH_SIZE
            nb == Len(batchLog)
        IN  /\ nb = (N + B - 1) \div B
            /\ \A i \in 1..(nb - 1) : Len(batchLog[i]) = B
            /\ nb > 0 => Len(batchLog[nb]) = (IF N % B = 0 THEN B ELSE N % B)

\* C3 witness: a source without cache hit has ended with a full chunk and a
\* shorter last one.
C3_Witness ==
    /\ mainPc = "returned"
    /\ seenIds \cap cachedAtStart = {}
    /\ Len(batchLog) = 2
    /\ Len(batchLog[2]) < LOOKUP_BATCH_SIZE

RECURSIVE Flatten(_)
Flatten(ss) == IF ss = << >> THEN << >> ELSE Head(ss) \o Flatten(Tail(ss))

\* C4: when the first source ends and every submitted identifier got a
\* result, RunCache holds exactly the distinct identifiers of the stream,
\* the sink holds exactly one record for each of them, and the chunks are
\* the first occurrences in discovery order cut into groups of B.
C4_SingleSourceScenario ==
    (mainPc = "returned" /\ srcIdx = 1 /\ missingIds = {}) =>
        /\ DOMAIN statusCache = seenIds
        /\ Len(sink) = Cardinality(seenIds)
        /\ \A x \in seenIds : Cardinality(RecordsOf(x)) = 1
        /\ Flatten(batchLog) = discovered
        /\ \A i \in DOMAIN batchLog :
              IF i < Len(batchLog) THEN Len(batchLog[i]) = LOOKUP_BATCH_SIZE
              ELSE Len(batchLog[i]) \in 1..LOOKUP_BATCH_SIZE

\* C4 witness: the first source has ended after a stream with a repeated
\* identifier, two chunks and a result for every identifier.
C4_Witness ==
    /\ mainPc = "returned"
    /\ srcIdx = 1
    /\ missingIds = {}
    /\ totalCollected > uniqueUsers
    /\ Len(batchLog) = 2
    /\ Len(sink) = Cardinality(seenIds)

\* C5: the sink of a source never holds two records for one identifier.
C5_OneRecordPerId ==
    \A i, j \in DOMAIN sink : sink[i].user.id = sink[j].user.id => i = j

\* C5 witness: the stream repeated an identifier, and the sink holds a
\* record served from the cache and a record from a resolved chunk.
C5_Witness ==
    /\ totalCollected > uniqueUsers
    /\ \E i, j \in DOMAIN sink :
          /\ sink[i].user.id \in cachedAtStart
          /\ sink[j].user.id \in SubmittedBySource

\* C6: a step never changes or removes an entry of RunCache, persistCache
\* is never given a result for an identifier that has an entry, and no
\* identifier that has an entry is handed to checkLotsOfUsers.
C6_CacheWriteOnce ==
    [][\A x \in DOMAIN statusCache :
          /\ x \in DOMAIN statusCache'
          /\ statusCache'[x] = statusCache[x]
          /\ (InLookup /\ ~InLookup') => x \notin DOMAIN userStatuses
          /\ x \notin SubmittedNow]_vars

\* C6 witness: persistCache has added entries to a cache that already held
\* entries of an earlier source.
C6_Witness ==
    /\ cachedAtStart # {}
    /\ (DOMAIN statusCache) \ cachedAtStart # {}

\* C7: while a detached chunk is with checkLotsOfUsers, from the moment it
\* is detached, none of its identifiers is a key of RunCache.
C7_BatchDisjointFromCache ==
    InLookup => Range(chunk) \cap DOMAIN statusCache = {}

\* C7 witness: a chunk is out while RunCache holds entries and the source
\* has had a cache hit.
C7_Witness ==
    /\ InLookup
    /\ seenIds \cap cachedAtStart # {}
    /\ chunk # << >>

(* --------------------------- the Rate Gate ---------------------------- *)

\* Task t issues a network request in this step.
Issues(t) ==
    /\ task'[t].pc = "inflight"
    /\ t \in DOMAIN task => task[t].pc # "inflight"

\* Task t awaits the lock promise.
AwaitsLock(t) == task[t].pc \in {"gate_wait", "activate_wait"}

\* Task t receives a 429 response in this step.
Gets429(t) ==
    /\ t \in DOMAIN task'
    /\ task[t].pc = "inflight"
    /\ task'[t].pc = "activate_wait"

\* C8: a step that issues a request, first try or retry, of any of the
\* concurrent submissions, ends with the gate open: no request is issued
\* while the lock is held.
C8_NoRequestWhileHalted ==
    [][\A t \in DOMAIN task' : Issues(t) => ~global429Lock'.held]_vars

\* C8 witness: the gate is halted by one submission while a retry of
\* another one waits at the gate.
C8_Witness ==
    /\ global429Lock.held
    /\ \E t, u \in DOMAIN task :
          /\ task[t].pc = "activate_wait"
          /\ task[u].pc = "gate_wait"
          /\ task[u].consecutiveFailures > 0

\* C9: while the gate is halted its lock does not change (no new cooldown,
\* no other length), a trip during the halt counts no new halt, and the
\* length of a halt is the one computed by the caller that established it.
C9_TripWhileHaltedIsNoOp ==
    /\ [][(global429Lock.held /\ global429Lock'.held) =>
             (global429Lock' = global429Lock /\ halts' = halts)]_vars
    /\ [][(~global429Lock.held /\ global429Lock'.held) =>
             \E t \in DOMAIN task :
                 Gets429(t) /\ global429Lock'.waitMs = task'[t].waitMs]_vars

\* C9 witness: two submissions wait in activateGlobal429 during one halt,
\* one of them having computed another cooldown than the one that runs.
C9_Witness ==
    /\ global429Lock.held
    /\ halts = 1
    /\ \E t, u \in DOMAIN task :
          /\ t # u
          /\ task[t].pc = "activate_wait"
          /\ task[u].pc = "activate_wait"
          /\ task[u].waitMs # global429Lock.waitMs

\* C10: a halted gate reopens; it is halted exactly when one more halt has
\* been established than cleared; the step that reopens it clears once and
\* resumes every task that awaited the lock; a 429 received with the gate
\* open establishes a new halt.
C10_EveryHaltEnds ==
    /\ global429Lock.held ~> ~global429Lock.held
    /\ [](global429Lock.held <=> halts = clears + 1)
    /\ [](~global429Lock.held <=> halts = clears)
    /\ [][(global429Lock.held /\ ~global429Lock'.held) =>
             /\ clears' = clears + 1
             /\ \A t \in DOMAIN task : AwaitsLock(t) => task'[t].pc = "inflight"]_vars
    /\ [][\A t \in DOMAIN task :
             (~global429Lock.held /\ Gets429(t)) =>
                 (global429Lock'.held /\ halts' = halts + 1)]_vars

\* C10 witness: a second halt is established after the first one ended.
C10_Witness ==
    /\ global429Lock.held
    /\ halts = 2
    /\ clears = 1

(* ------------------------ failures of a batch ------------------------- *)

\* The records the sink holds for x after the step.
RecordsAfterOf(x) == {k \in DOMAIN sink' : sink'[k].user.id = x}

\* Task t receives, in this step, what its request got: kind.
Receives(t, kind) ==
    /\ t \in DOMAIN task'
    /\ task[t].pc = "inflight"
    /\ task'[t].response = kind

\* C11: a failed batch contributes nothing to the results of its call; when
\* the call returns, processEntries goes on (it does not throw), the ids of
\* a failed batch get no RunCache entry and no record, every result of the
\* call is cached and recorded once; the ids of the failed batches of a
\* source stay out of RunCache and of its sink; the step that fails a batch
\* leaves the other batches, the launch loop and the results alone.
C11_FailedBatchIsContained ==
    /\ [](\A t \in DOMAIN task :
            task[t].pc = "failed" =>
                Range(batches[t]) \cap DOMAIN userStatuses = {})
    /\ [](\A x \in failedIds : x \notin DOMAIN statusCache /\ RecordsOf(x) = {})
    /\ [][(InLookup /\ ~InLookup') =>
             /\ mainPc' \in {"iter", "returned"}
             /\ \A x \in IdsOfFailed :
                   x \notin DOMAIN statusCache' /\ RecordsAfterOf(x) = {}
             /\ \A x \in DOMAIN userStatuses :
                   /\ x \in DOMAIN statusCache'
                   /\ statusCache'[x] = userStatuses[x]
                   /\ Cardinality(RecordsAfterOf(x)) = 1
                   /\ \A k \in RecordsAfterOf(x) : sink'[k].user = userStatuses[x]]_vars
    /\ [][\A t \in DOMAIN task :
             (t \in DOMAIN task' /\ task[t].pc # "failed" /\ task'[t].pc = "failed") =>
                 /\ userStatuses' = userStatuses
                 /\ launcher' = launcher
                 /\ \A u \in DOMAIN task \ {t} : task'[u] = task[u]]_vars

\* C11 witness: the first chunk of a source failed as a whole, and an
\* identifier of a later chunk is cached and recorded.
C11_Witness ==
    /\ Len(batchLog) >= 2
    /\ Range(batchLog[1]) \subseteq failedIds
    /\ \E x \in Range(batchLog[2]) :
          x \in DOMAIN statusCache /\ RecordsOf(x) # {}

\* C12: a thrown fetch or a response that is neither ok nor 429 adds one to
\* the failure counter; the batch fails when the counter exceeds
\* MAX_HTTP_RETRIES, else it sleeps retryDelayMs(counter) and then goes back
\* to the gate and its next request; a batch that only met such failures
\* has failed after exactly MAX_HTTP_RETRIES + 1 requests.
C12_FailuresCountedToCeiling ==
    /\ [][\A t \in DOMAIN task :
             Receives(t, "error") =>
                 LET n == task[t].consecutiveFailures + 1
                 IN  /\ task'[t].consecutiveFailures = n
                     /\ IF n > MAX_HTTP_RETRIES
                        THEN task'[t].pc = "failed"
                        ELSE /\ task'[t].pc = "backoff"
                             /\ task'[t].waitMs = retryDelayMs(n)]_vars
    /\ [][\A t \in DOMAIN task :
             (t \in DOMAIN task' /\ task[t].pc = "backoff" /\ task'[t].pc # "backoff") =>
                 /\ task'[t].pc \in {"inflight", "gate_wait"}
                 /\ task'[t].consecutiveFailures = task[t].consecutiveFailures]_vars
    /\ [](\A t \in DOMAIN task :
            (task[t].pc = "failed" /\ task[t].response = "error" /\ rateLimited = 0) =>
                task[t].requests = MAX_HTTP_RETRIES + 1)
    /\ [](\A t \in DOMAIN task :
            (task[t].response = "error" /\ task[t].requests <= MAX_HTTP_RETRIES) =>
                task[t].pc # "failed")

\* C12 witness: without any 429 in the call, a batch has failed on its
\* sixth failed request.
C12_Witness ==
    /\ rateLimited = 0
    /\ \E t \in DOMAIN task :
          /\ task[t].pc = "failed"
          /\ task[t].response = "error"
          /\ task[t].consecutiveFailures = 6
          /\ task[t].requests = 6

C14_LogicalFailureFailsAtOnce ==
    /\ [](\A t \in DOMAIN task :
            task[t].response = "ok_no_data" =>
                /\ task[t].pc = "failed"
                /\ Range(batches[t]) \cap DOMAIN userStatuses = {})
    /\ [][\A t \in DOMAIN task :
             (t \in DOMAIN task' /\ task[t].response = "ok_no_data") =>
                 task'[t] = task[t]]_vars
    /\ [][\A t \in DOMAIN task :
             Receives(t, "ok_no_data") => userStatuses' = userStatuses]_vars

\* C14 witness: a batch has failed on a logical failure that answered a
\* retry, the failure counter being positive when it came.
C14_Witness ==
    \E t \in DOMAIN task :
        /\ task[t].response = "ok_no_data"
        /\ task[t].pc = "failed"
        /\ task[t].requests > 1

(* --------------------------- backoff delays --------------------------- *)

\* Task t sleeps a backoff delay.
InBackoff(t) == task[t].pc = "backoff"

\* C15 as stated: every backoff delay slept with attempt counter a is
\* min(maxDelay, baseDelay * 2^a), in checkMultipleUsers and in the fetch
\* loops of the scrapers.  checkMultipleUsers sleeps
\* min(maxDelay, baseDelay * 2^(a - 1)).
C15_DelayIsBaseTimesTwoToAttempt ==
    /\ \A t \in DOMAIN task :
          InBackoff(t) =>
              task[t].waitMs = Min(30000, 1000 * 2 ^ task[t].consecutiveFailures)
    /\ (scraper.pc = "waiting" /\ scraper.response # "429") =>
          scraper.waitMs = Min(30000, 1000 * 2 ^ scraper.retryAttempt)

\* C15 amended: the delay slept with attempt counter a >= 1 is
\* min(30000, 1000 * 2^(a - 1)) in checkMultipleUsers and
\* min(30000, 1000 * 2^a) in fetchFriendsPage and fetchJSON (but for the
\* Retry-After wait of fetchJSON on a 429).
C15_DelayPerComponent ==
    /\ \A t \in DOMAIN task :
          InBackoff(t) =>
              /\ task[t].consecutiveFailures >= 1
              /\ task[t].waitMs = Min(30000, 1000 * 2 ^ (task[t].consecutiveFailures - 1))
    /\ (scraper.pc = "waiting" /\ scraper.response # "429") =>
          /\ scraper.retryAttempt >= 1
          /\ scraper.waitMs = Min(30000, 1000 * 2 ^ scraper.retryAttempt)
    /\ (scraper.pc = "waiting" /\ scraper.response = "429" /\ scraper.kind = "fetchFriendsPage") =>
          scraper.waitMs = Min(30000, 1000 * 2 ^ scraper.retryAttempt)

\* C15 witness: the verification batch sleeps before its fifth retry while
\* a scraper sleeps before its fourth.
C15_Witness ==
    /\ \E t \in DOMAIN task : InBackoff(t) /\ task[t].consecutiveFailures = 5
    /\ scraper.pc = "waiting"
    /\ scraper.response # "429"
    /\ scraper.retryAttempt = 4

\* C16: in each retry loop the attempt counter handed to the backoff
\* function before the first retry is 1, and the delay slept before the
\* first retry is baseDelay (1000 ms).  The scrapers sleep 2000 ms, and
\* fetchJSON sleeps the Retry-After of a 429 instead.
C16_FirstRetryAfterBaseDelay ==
    /\ \A t \in DOMAIN task :
          (InBackoff(t) /\ task[t].requests = 1) =>
              /\ task[t].consecutiveFailures = 1
              /\ task[t].waitMs = 1000
    /\ (scraper.pc = "waiting" /\ scraper.requests = 1) =>
          /\ scraper.retryAttempt = 1
          /\ scraper.waitMs = 1000

(* ---------------------- the pipeline and its sink --------------------- *)

\* A batch of the current checkLotsOfUsers call is not resolved yet.
BatchUnresolved ==
    \/ launcher.pc # "idle"
    \/ \E t \in DOMAIN task : ~Settled(t)

C18_CloseAfterLastAppend ==
    /\ [](rotectorWriter = "closed" =>
            /\ flushed = Len(sink)
            /\ ~BatchUnresolved
            /\ pendingLookup = << >>
            /\ chunk = << >>
            /\ \A x \in SubmittedBySource : x \in missingIds \/ RecordsOf(x) # {})
    /\ [][sink' # sink =>
             \/ rotectorWriter = "open" /\ rotectorWriter' = "open"
             \/ rotectorWriter' # "closed" /\ sink' = << >>]_vars
    /\ [][(rotectorWriter = "closed" /\ rotectorWriter' = "closed") => sink' = sink]_vars
    /\ [][(mainPc # "idle" /\ mainPc' = "idle") => rotectorWriter = "closed"]_vars

\* C18 witness: the sink of a source is closed after records of two chunks,
\* the second one from the final flush.
C18_Witness ==
    /\ rotectorWriter = "closed"
    /\ Len(batchLog) = 2
    /\ \E x \in Range(batchLog[2]) : RecordsOf(x) # {}
    /\ \E x \in Range(batchLog[1]) : RecordsOf(x) # {}

\* C19: when the "<label> complete" status message of a source has been
\* given, the sink of the source is closed and its records are flushed.
\* The message is given before closeWriter is called.
C19_RecordedBeforeReported ==
    mainPc = "reported" => (rotectorWriter = "closed" /\ flushed = Len(sink))

\* C20: once the entry stream of a source has thrown, the run is aborted
\* and nothing happens any more: no batch is submitted, no source started,
\* the buffer is never handed over and no sink record changes; the step of
\* the failure itself leaves the cache, the sinks, the buffer and the
\* submissions as they were, and no batch is unresolved at that time.
C20_StreamFailureAbortsRun ==
    /\ [](streamError => mainPc = "aborted")
    /\ [][mainPc = "aborted" => vars' = vars]_vars
    /\ [][(~streamError /\ streamError') =>
             /\ sink' = sink
             /\ statusCache' = statusCache
             /\ pendingLookup' = pendingLookup
             /\ batchLog' = batchLog
             /\ submitted' = submitted
             /\ srcIdx' = srcIdx
             /\ ~BatchUnresolved']_vars

\* C20 witness: the stream of a source has thrown with identifiers in the
\* buffer, records in the sink and a further source to come.
C20_Witness ==
    /\ streamError
    /\ mainPc = "aborted"
    /\ pendingLookup # << >>
    /\ sink # << >>
    /\ srcIdx < NumSources

(* --------------------------- classification --------------------------- *)

\* The records of the sink whose flag level is in F.
RecordsWithFlag(F) == {k \in DOMAIN sink : sink[k].user.flagType \in F}

\* The count flagBreakdown holds for a label (0 when it holds none).
BreakdownOf(label) ==
    IF label \in DOMAIN flagBreakdown THEN flagBreakdown[label] ELSE 0

\* C21 as stated: a result whose flag level is outside 0..6 is classified
\* by nobody: flagTypeToEnum throws on it, and writeStatus records no such
\* result and counts no label for it.  writeStatus records it under the
\* label "UNKNOWN".
C21_OutOfRangeNeverRecorded ==
    /\ classified.value \notin 0..6 => classified.throws
    /\ RecordsWithFlag(FlagInputs \ (0..6)) = {}
    /\ "UNKNOWN" \notin DOMAIN flagBreakdown

\* C21 amended: flagTypeToEnum throws exactly on the levels outside 0..6;
\* flagTypeToString gives such a level the label "UNKNOWN" and no label of
\* a level of 0..6, and writeStatus records the result with its flag level
\* unchanged, counts it under "UNKNOWN" and as an unsafe match.
C21_EnumThrowsStringSaysUnknown ==
    /\ classified.throws <=> classified.value \notin 0..6
    /\ BreakdownOf("UNKNOWN") = Cardinality(RecordsWithFlag(FlagInputs \ (0..6)))
    /\ BreakdownOf("SAFE") = Cardinality(RecordsWithFlag({0}))
    /\ \A f \in 0..6 :
          BreakdownOf(flagTypeToString(f)) = Cardinality(RecordsWithFlag({f}))
    /\ unsafeMatches = Cardinality(RecordsWithFlag(FlagInputs \ {0}))
    /\ \A k \in DOMAIN sink : sink[k].user.id = k

\* C21 witness: results of the levels 7 and -1 have been recorded, and
\* flagTypeToEnum has thrown on the last one.
C21_Witness ==
    /\ classified.throws
    /\ RecordsWithFlag({7}) # {}
    /\ RecordsWithFlag({-1}) # {}
    /\ BreakdownOf("UNKNOWN") = 2

(* ----------------------- resolution of a chunk ------------------------ *)

\* The step in which flushLookup gets the results of its chunk and runs to
\* its end.
ChunkResolves == InLookup /\ mainPc' \in {"iter", "returned"}

\* What the resolution of the chunk does for id x of the chunk: with a
\* result, the result is in RunCache and one record of it is appended to the
\* sink of the source; without, x gets no RunCache entry and no record.
ResolvedPerId(x) ==
    IF x \in DOMAIN userStatuses
    THEN /\ x \in DOMAIN statusCache'
         /\ statusCache'[x] = userStatuses[x]
         /\ \E k \in RecordsAfterOf(x) :
               /\ k > Len(sink)
               /\ sink'[k] = [source |-> srcIdx, user |-> userStatuses[x]]
               /\ RecordsAfterOf(x) = RecordsOf(x) \cup {k}
    ELSE /\ x \notin DOMAIN statusCache'
         /\ RecordsAfterOf(x) = RecordsOf(x)

C23_ClientLeavesCacheAlone ==
    [][/\ (InLookup /\ InLookup') => statusCache' = statusCache
       /\ statusCache' # statusCache =>
             /\ InLookup
             /\ launcher.pc = "joining"
             /\ \A t \in DOMAIN task : Settled(t)
             /\ mainPc' \in {"iter", "returned"}
             /\ statusCache' = PersistCache(userStatuses)]_vars

\* C23 witness: a submission is out, the client holds a result that
\* statusCache, which is not empty, does not hold.
C23_Witness ==
    /\ InLookup
    /\ statusCache # EmptyMap
    /\ \E x \in DOMAIN userStatuses : x \notin DOMAIN statusCache

(* ------------------------- streamGroupMembers ------------------------- *)

\* The members of the group: entry k of page i.
GroupEntries ==
    {e \in (DOMAIN groupStream.layout) \X (1..MaxPageLen) :
        e[2] <= groupStream.layout[e[1]].size}

\* Role order, then page order, then the order within the page.
EntryBefore(a, b) == a[1] < b[1] \/ (a[1] = b[1] /\ a[2] < b[2])

\* How many entries the stream is to yield.
ExpectedYield ==
    IF groupStream.max = 0 THEN Cardinality(GroupEntries)
    ELSE Min(groupStream.max, Cardinality(GroupEntries))

\* C24: streamGroupMembers with cap c > 0 over a group of M members ends
\* having yielded the first min(c, M) of them in role order then page order,
\* without a cap all M; it yields distinct members in that order all along,
\* and once c entries are yielded it makes no page request.
C24_YieldsMinOfCapAndMembers ==
    /\ [](/\ \A i, j \in DOMAIN groupStream.yielded :
               i < j => EntryBefore(groupStream.yielded[i], groupStream.yielded[j])
          /\ Range(groupStream.yielded) \subseteq GroupEntries
          /\ \A y \in Range(groupStream.yielded) :
               \A e \in GroupEntries \ Range(groupStream.yielded) :
                   EntryBefore(y, e)
          /\ groupStream.pc = "ended" =>
               /\ Len(groupStream.yielded) = ExpectedYield
               /\ groupStream.max = 0 =>
                     Len(groupStream.requested) = Len(groupStream.layout))
    /\ [][(groupStream.max # 0
             /\ Len(groupStream.yielded) >= groupStream.max) =>
               groupStream'.requested = groupStream.requested]_vars

\* C24 witness: a stream with cap 2 has ended after two entries of two
\* roles, with a member and a page of the group left.
C24_Witness ==
    /\ groupStream.pc = "ended"
    /\ groupStream.max = 2
    /\ Len(groupStream.yielded) = 2
    /\ groupStream.layout[groupStream.yielded[1][1]].last
    /\ groupStream.yielded[1][1] < groupStream.yielded[2][1]
    /\ Cardinality(GroupEntries) > 2
    /\ Len(groupStream.requested) < Len(groupStream.layout)

(* --------------------------- the launch loop -------------------------- *)

\* C25 as stated: the launch loop pauses before a batch exactly when a
\* multiple of 25 batches has been launched so far (launcher.i is the number
\* of batches launched when it sleeps): it sleeps at no other count, and no
\* batch with such a count before it is launched without the sleep.  The
\* loop tests i % 25 = 1: it sleeps with 1, 26, 51, ... batches launched.
C25_PausesAfterEvery25 ==
    /\ [](launcher.pc = "stagger_sleep" =>
             (launcher.i > 0 /\ launcher.i % STAGGER_EVERY = 0))
    /\ [][\A t \in DOMAIN task' :
             (/\ t \in DOMAIN task
              /\ task[t].pc = "unlaunched"
              /\ task'[t].pc # "unlaunched"
              /\ t - 1 > 0
              /\ (t - 1) % STAGGER_EVERY = 0) =>
                 (launcher.pc = "stagger_sleep" /\ launcher.i = t - 1)]_vars

(* ---------------------------- the cooldown ---------------------------- *)

\* C26 as stated: a task that got a 429 response waits hint * 1000 + 2500
\* ms when the Retry-After header is a number hint >= 0, and 12500 ms when
\* the header is absent or not a number.  A header of 0 gives 12500 ms.
C26_CooldownFromHint ==
    \A t \in DOMAIN task :
        task[t].pc = "activate_wait" =>
            task[t].waitMs = IF task[t].retryAfter >= 0
                             THEN task[t].retryAfter * 1000 + 2500
                             ELSE 10 * 1000 + 2500

(* --------------------------- the page fetch --------------------------- *)

\* C27: a page fetch issues at most MAX_HTTP_RETRIES requests for its page;
\* it throws exactly on the failure (thrown fetch, error status or 429) of
\* the last of them, and waits and retries on an earlier one; once it has
\* thrown the stream is over: no further request, page or normal end; the
\* stream goes to the next page, or ends normally, only on an ok response
\* for the page at hand.
C27_PageFetchThrowsAfterFiveRequests ==
    /\ [](/\ scraper.requests <= MAX_HTTP_RETRIES
          /\ scraper.pc = "thrown" =>
                /\ scraper.requests = MAX_HTTP_RETRIES
                /\ scraper.response \in {"throw", "error", "429"}
          /\ scraper.pc = "waiting" => scraper.requests < MAX_HTTP_RETRIES
          /\ scraper.pc = "returned" => scraper.response = "ok")
    /\ [][/\ scraper.pc = "thrown" => scraper' = scraper
          /\ (scraper.pc = "inflight" /\ scraper'.pc \in {"waiting", "thrown"}) =>
                (scraper'.pc = "thrown" <=> scraper.requests = MAX_HTTP_RETRIES)
          /\ (scraper'.page # scraper.page \/ scraper'.pc = "returned") =>
                \/ scraper' = scraper
                \/ scraper.pc = "idle"
                \/ scraper.pc = "inflight" /\ scraper'.pc \in {"inflight", "returned"}
         ]_vars

\* C27 witness: the fetch of the second page has thrown on the 429 response
\* to its fifth request.
C27_Witness ==
    /\ scraper.pc = "thrown"
    /\ scraper.page = 2
    /\ scraper.requests = MAX_HTTP_RETRIES
    /\ scraper.response = "429"

(* ---------------------- one request at a time ------------------------- *)

\* The batches of the current call whose request is out.
InFlight == {t \in DOMAIN task : task[t].pc = "inflight"}

\* C28: under main at most one request to the verifier is in flight: a
\* chunk has at most LOOKUP_BATCH_SIZE ids, which checkLotsOfUsers makes
\* one batch of, so the launch loop never sleeps between batches; there
\* are tasks only while processEntries awaits flushLookup, for the chunk of
\* the one source at work.
C28_OneRequestInFlight ==
    /\ Cardinality(InFlight) <= 1
    /\ Len(batches) <= 1
    /\ Len(task) = Len(batches)
    /\ Len(chunk) <= LOOKUP_BATCH_SIZE
    /\ launcher.pc # "stagger_sleep"
    /\ task # << >> =>
          /\ InLookup
          /\ batches = <<chunk>>
          /\ batchLog # << >>
          /\ batchLog[Len(batchLog)] = chunk

\* C28 witness: the second source has the request of a full chunk in
\* flight.
C28_Witness ==
    /\ srcIdx = 2
    /\ mainPc = "flush"
    /\ Len(chunk) = LOOKUP_BATCH_SIZE
    /\ Cardinality(InFlight) = 1

(* ----------------------- the counters of a source --------------------- *)

\* The sum of the counts flagBreakdown holds for the labels of L.
RECURSIVE SumBreakdown(_)
SumBreakdown(L) ==
    IF L = {} THEN 0
    ELSE LET label == CHOOSE l \in L : TRUE
         IN  flagBreakdown[label] + SumBreakdown(L \ {label})

\* The ids of the source that statusCache held when they were met.
CacheHits == seenIds \cap cachedAtStart

\* C29: between two stream entries of a source, totalCollected >=
\* uniqueUsers = |seenIds|; uniqueUsers = cache hits + newlyChecked +
\* |pendingLookup|; |pendingLookup| < LOOKUP_BATCH_SIZE; the counts of
\* flagBreakdown sum up to the number of records written, which is at most
\* uniqueUsers; newlyChecked is the number of ids submitted, those without
\* a result included.
C29_CountersBetweenEntries ==
    mainPc = "iter" =>
        /\ totalCollected >= uniqueUsers
        /\ uniqueUsers = Cardinality(seenIds)
        /\ uniqueUsers = Cardinality(CacheHits) + newlyChecked + Len(pendingLookup)
        /\ Len(pendingLookup) < LOOKUP_BATCH_SIZE
        /\ SumBreakdown(DOMAIN flagBreakdown) = Len(sink)
        /\ Len(sink) <= uniqueUsers
        /\ newlyChecked = Cardinality(SubmittedBySource)
        /\ Len(sink) =
             Cardinality(CacheHits) + Cardinality(SubmittedBySource \ missingIds)

\* C29 witness: between two entries the source has a cache hit, an id met
\* twice and a submitted id without a result.
C29_Witness ==
    /\ mainPc = "iter"
    /\ CacheHits # {}
    /\ totalCollected > uniqueUsers
    /\ missingIds # {}
    /\ newlyChecked > Cardinality(SubmittedBySource \ missingIds)

(* ------------------- one batch per id and source ---------------------- *)

\* The places of the chunks the source has submitted: chunk i, position k.
BatchPlaces ==
    {pl \in (DOMAIN batchLog) \X (1..LOOKUP_BATCH_SIZE) :
        pl[2] <= Len(batchLog[pl[1]])}

\* The ids of the source that were submitted and got no result.
Unresolved == missingIds \cup failedIds

\* C30: within a source no two places of its batches hold the same id; the
\* ids submitted, those of failed batches and those the verifier left out
\* included, are in seenIds, which loses no id while the source runs; so no
\* step buffers or submits an id that was submitted before, whatever came
\* of it.
C30_NoIdInTwoBatchesOfASource ==
    /\ [](/\ \A p, q \in BatchPlaces :
               p # q => batchLog[p[1]][p[2]] # batchLog[q[1]][q[2]]
          /\ SubmittedBySource \cup Unresolved \subseteq seenIds
          /\ Unresolved \subseteq SubmittedBySource
          /\ Range(pendingLookup) \cap SubmittedBySource = {})
    /\ [][/\ (mainPc # "idle" /\ mainPc' # "idle") => seenIds \subseteq seenIds'
          /\ \A x \in SubmittedBySource :
                x \notin SubmittedNow /\ x \notin Range(pendingLookup')]_vars

\* C30 witness: the one chunk of the source has failed, every id met so far
\* was in it, one of them has come twice, and the source goes on.
C30_Witness ==
    /\ mainPc = "iter"
    /\ Len(batchLog) = 1
    /\ failedIds # {}
    /\ seenIds = failedIds
    /\ totalCollected > uniqueUsers
    /\ pendingLookup = << >>

====
